---- MODULE Spec2Model ----
(***************************************************************************)
(* Model of city-walls (src/src/main.rs): a two-pass extraction of the     *)
(* ways tagged barrier=city_wall from an OSM PBF extract, the resolution   *)
(* of their node coordinates, and the bulk insert of the resulting         *)
(* LineString texts into a MySQL table inside one transaction.             *)
(*                                                                         *)
(* An f64 coordinate is represented by the i32 "decimicro" value it was    *)
(* decoded from (node.lon() = decimicro_lon * 1e-7), i.e. by the integer   *)
(* number of 1e-7 degrees.  Option<T> is a sequence of length 0 (None) or  *)
(* 1 (Some).  Strings are TLA+ strings, concatenated with \o.              *)
(***************************************************************************)
EXTENDS Integers, Sequences, FiniteSets, TLC

\* ------------------------------------------------------------------ bounds
\* Largest number of objects in the extract file.
MaxObjs == 3

\* ------------------------------------------------------- program constants
\* Number of fractional digits of "{lon:.7}" / "{lat:.7}".
Precision == 7
\* 10^Precision: decimicro units per degree.
DecimicroPerDegree == 10000000

\* ------------------------------------------------------------- Option<T>
None == << >>
Some(x) == << x >>
IsSome(o) == Len(o) = 1
IsNone(o) == Len(o) = 0
Unwrap(o) == o[1]

Range(s) == { s[i] : i \in 1..Len(s) }

\* ------------------------------------------------- the decoded OSM objects
\* Node identifiers occurring in the extract.
NodeIds == {10, 11}
\* (decimicro_lon, decimicro_lat) pairs: (7.0, 50.0) and (-0.1234567, 50.1).
Coords == { <<70000000, 500000000>>, <<-1234567, 501000000>> }
\* OsmObj::Node
Nodes == { [kind |-> "Node", id |-> 10, coord |-> c] : c \in Coords }
           \cup { [kind |-> "Node", id |-> 11, coord |-> <<70000000, 500000000>>] }
\* Tag sets of ways (osmpbfreader::Tags, a key -> value map).
TagSets == { [barrier |-> "city_wall"],
             [barrier |-> "city_wall", name |-> "Stadtmauer"],
             [barrier |-> "fence", name |-> "city_wall"] }
\* Way::nodes, the ordered node references of a way: none, a single one, and
\* a closed ring that repeats its first reference and shares node 10.
NodeLists == { << >>, <<10>>, <<11, 10, 11>> }
\* OsmObj::Way
Ways == { [kind |-> "Way", tags |-> t, nodes |-> n] : t \in TagSets, n \in NodeLists }
\* OsmObj::Relation
Relations == { [kind |-> "Relation"] }
OsmObjs == Nodes \cup Ways \cup Relations

\* All extract files of at most MaxObjs objects.
RECURSIVE SeqsUpTo(_, _)
SeqsUpTo(S, n) ==
    IF n = 0 THEN { << >> }
    ELSE LET shorter == SeqsUpTo(S, n - 1)
         IN  shorter \cup { Append(s, x) : s \in { t \in shorter : Len(t) = n - 1 }, x \in S }
Files == SeqsUpTo(OsmObjs, MaxObjs)

\* A row left in the cwalls table by an earlier run.
OldRow == [name |-> Some("old"), geo |-> "LineString(1.0000000 2.0000000,3.0000000 4.0000000)"]

\* ------------------------------------------------------------- the state
VARIABLES
    file,          \* the objects of germany-latest.osm.pbf, in file order
    pc,            \* position of main()
    err,           \* why the run failed ("none" while it has not)
    pos,           \* reader: index of the next object to deliver
    rewinds,       \* number of completed reader.rewind() calls
    read1,         \* number of objects consumed by the first pass
    read2,         \* number of objects consumed by the second pass
    cwalls,        \* Vec<Way>: the retained ways
    cwall_nodes,   \* HashMap<NodeId, Option<(f64, f64)>>
    node_count,    \* resolved counter
    wi,            \* index in cwalls of the way of the current loop iteration
    opt_name,      \* Option<&str> of the current iteration
    opt_geometry,  \* Option<String> of the current iteration
    tx,            \* "none", "open", "committed", "rolledback"
    txRows,        \* rows inserted in the open transaction, not yet durable
    tableExists,   \* does the table cwalls exist
    table,         \* durable rows of the table cwalls
    submitted,     \* records handed to tx.exec_drop, in order
    storeLog,      \* store operations issued by the run, in order
    reader,        \* the OsmPbfReader and its File: "none", "open", "closed"
    conn,          \* the pool and its connection: "none", "open", "closed"
    autoInc,       \* next AUTO_INCREMENT value of the table cwalls
    txIds,         \* generated ids of the rows of txRows
    tableIds,      \* generated ids of the rows of table
    rerun,         \* is this the second of two runs in succession
    prev           \* how the first of the two runs ended

vars == << file, pc, err, pos, rewinds, read1, read2, cwalls, cwall_nodes,
           node_count, wi, opt_name, opt_geometry, tx, txRows, tableExists,
           table, submitted, storeLog, reader, conn, autoInc, txIds, tableIds,
           rerun, prev >>

readerVars == << pos, rewinds, read1, read2 >>
passVars == << cwalls, cwall_nodes, node_count >>
loopVars == << wi, opt_name, opt_geometry >>
storeVars == << tx, txRows, tableExists, table, submitted, storeLog >>
resVars == << reader, conn >>
idVars == << autoInc, txIds, tableIds >>
runVars == << rerun, prev >>

EmptyMap == [ id \in {} |-> None ]

\* No earlier run in this behaviour.
NoPrev == [outcome |-> "none"]

\* The state of main() when the process starts.
ProgramStart ==
    /\ pc = "connect"
    /\ err = "none"
    /\ pos = 1
    /\ rewinds = 0
    /\ read1 = 0
    /\ read2 = 0
    /\ cwalls = << >>
    /\ cwall_nodes = EmptyMap
    /\ node_count = 0
    /\ wi = 1
    /\ opt_name = None
    /\ opt_geometry = None
    /\ tx = "none"
    /\ txRows = << >>
    /\ txIds = << >>
    /\ submitted = << >>
    /\ storeLog = << >>
    /\ reader = "none"
    /\ conn = "none"

Init ==
    /\ file \in Files
    /\ ProgramStart
    /\ \/ tableExists = FALSE /\ table = << >>
       \/ tableExists = TRUE /\ table \in { << >>, << OldRow >> }
    /\ tableIds = [ i \in 1..Len(table) |-> i ]
    /\ autoInc = Len(table) + 1
    /\ rerun = FALSE
    /\ prev = NoPrev

\* The rows inserted so far stay in the table (no rollback).
RolledBackKeepsRows(tbl, rows) == tbl \o rows

\* Dropping a Transaction that was not committed rolls it back: the durable
\* rows are the ones the table had before, the pending rows are discarded.
RolledBack(tbl, rows) == tbl

\* The value is not dropped when main() is left.
Leaked(r) == r

\* Leaving main() drops the value: an open resource is released.
Released(r) == IF r = "open" THEN "closed" ELSE r

\* The run ends with an error (a `?` returning Err, or a panic).  An open
\* transaction is rolled back when it is dropped.
Fail(reason) ==
    /\ pc' = "failed"
    /\ err' = reason
    /\ tx' = IF tx = "open" THEN "rolledback" ELSE tx
    /\ txRows' = << >>
    /\ table' = RolledBack(table, txRows)
    /\ txIds' = << >>
    /\ tableIds' = RolledBack(tableIds, txIds)
    /\ reader' = Released(reader)
    /\ conn' = Released(conn)

\* ------------------------------------------------------- schema bootstrap
\* Pool::new(conn_str)?; conn_pool.get_conn()?
Connect ==
    /\ pc = "connect"
    /\ \/ /\ pc' = "drop"
          /\ conn' = "open"
          /\ UNCHANGED << err, tx, txRows, table, reader, txIds, tableIds >>
       \/ Fail("store")
    /\ UNCHANGED << runVars, autoInc, file, readerVars, passVars, loopVars, tableExists,
                    submitted, storeLog >>

\* The table keeps its rows.
DropKeepsRows(tbl) == tbl

\* The rows of the table after DROP TABLE IF EXISTS cwalls.
DroppedTable(tbl) == << >>

\* The AUTO_INCREMENT counter goes on from its old value.
AutoIncKept(a) == a

\* The AUTO_INCREMENT counter of a newly created table.
AutoIncAfterCreate(a) == 1

\* conn.query_drop("DROP TABLE IF EXISTS cwalls")?
DropTable ==
    /\ pc = "drop"
    /\ storeLog' = Append(storeLog, "drop")
    /\ \/ /\ pc' = "create"
          /\ tableExists' = FALSE
          /\ table' = DroppedTable(table)
          /\ tableIds' = DroppedTable(tableIds)
          /\ UNCHANGED << err, tx, txRows, resVars, txIds >>
       \/ /\ Fail("store")
          /\ UNCHANGED tableExists
    /\ UNCHANGED << runVars, autoInc, file, readerVars, passVars, loopVars, submitted >>

\* conn.query_drop("CREATE TABLE cwalls (...)")?
CreateTable ==
    /\ pc = "create"
    /\ storeLog' = Append(storeLog, "create")
    /\ \/ /\ pc' = "prep"
          /\ tableExists' = TRUE
          /\ table' = << >>
          /\ tableIds' = << >>
          /\ autoInc' = AutoIncAfterCreate(autoInc)
          /\ UNCHANGED << err, tx, txRows, resVars, txIds >>
       \/ /\ Fail("store")
          /\ UNCHANGED << tableExists, autoInc >>
    /\ UNCHANGED << runVars, file, readerVars, passVars, loopVars, submitted >>

\* conn.prep("INSERT INTO cwalls (name, geo) VALUES (...)")?
Prepare ==
    /\ pc = "prep"
    /\ storeLog' = Append(storeLog, "prep")
    /\ \/ /\ pc' = "open"
          /\ UNCHANGED << err, tx, txRows, table, resVars, txIds, tableIds >>
       \/ Fail("store")
    /\ UNCHANGED << runVars, autoInc, file, readerVars, passVars, loopVars, tableExists,
                    submitted >>

\* File::open(...).unwrap(); OsmPbfReader::new(file)
OpenFile ==
    /\ pc = "open"
    /\ \/ /\ pc' = "pass1"
          /\ pos' = 1
          /\ reader' = "open"
          /\ UNCHANGED << err, tx, txRows, table, conn, txIds, tableIds >>
       \/ /\ Fail("io")
          /\ UNCHANGED pos
    /\ UNCHANGED << runVars, autoInc, file, rewinds, read1, read2, passVars, loopVars,
                    tableExists, submitted, storeLog >>

\* ------------------------------------------------------------ first pass
\* Tags::contains(key, value)
TagsContains(tags, k, v) == k \in DOMAIN tags /\ tags[k] = v
\* Tags::get(key)
TagsGet(tags, k) == IF k \in DOMAIN tags THEN Some(tags[k]) ELSE None

\* Selects every way that has a barrier tag, whatever its value.
IsCityWallAnyBarrier(way) == "barrier" \in DOMAIN way.tags

\* way.tags.contains("barrier", "city_wall")
IsCityWall(way) == TagsContains(way.tags, "barrier", "city_wall")

\* Folds in only the first node reference of the way.
ExtendNodesFirstOnly(map, nodes) ==
    [ id \in DOMAIN map \cup (IF Len(nodes) = 0 THEN {} ELSE {nodes[1]}) |->
        IF Len(nodes) > 0 /\ id = nodes[1] THEN None ELSE map[id] ]

\* Folds in all node references of the way but the last one.
ExtendNodesDropsLast(map, nodes) ==
    LET ids == { nodes[i] : i \in 1..(Len(nodes) - 1) }
    IN  [ id \in DOMAIN map \cup ids |-> IF id \in ids THEN None ELSE map[id] ]

\* Replaces the map by the node references of the way.
ExtendNodesReplacing(map, nodes) == [ id \in Range(nodes) |-> None ]

\* cwall_nodes.extend(way.nodes.iter().map(|&id| (id, None)))
ExtendNodes(map, nodes) ==
    [ id \in DOMAIN map \cup Range(nodes) |->
        IF id \in Range(nodes) THEN None ELSE map[id] ]

\* Reports the end of the stream one object early.
EndOfStreamEarly(p, f) == p >= Len(f)

\* The iterator of reader.par_iter() is exhausted.
EndOfStream(p, f) == p > Len(f)

\* One iteration of `for obj in reader.par_iter().map(Result::unwrap)` of the
\* first pass, or the end of that loop.
Pass1Step ==
    /\ pc = "pass1"
    /\ \/ /\ ~EndOfStream(pos, file)
          /\ LET obj == file[pos] IN
             /\ pos' = pos + 1
             /\ read1' = read1 + 1
             /\ IF obj.kind = "Way" /\ IsCityWall(obj)
                THEN /\ cwall_nodes' = ExtendNodes(cwall_nodes, obj.nodes)
                     /\ cwalls' = Append(cwalls, obj)
                ELSE UNCHANGED << cwalls, cwall_nodes >>
          /\ UNCHANGED << pc, err, tx, txRows, table, resVars, txIds, tableIds >>
       \/ /\ ~EndOfStream(pos, file)
          /\ Fail("decode")
          /\ UNCHANGED << pos, read1, cwalls, cwall_nodes >>
       \/ /\ EndOfStream(pos, file)
          /\ pc' = "rewind"
          /\ UNCHANGED << err, tx, txRows, table, resVars, txIds, tableIds,
                          pos, read1, cwalls, cwall_nodes >>
    /\ UNCHANGED << runVars, autoInc, file, rewinds, read2, node_count, loopVars, tableExists,
                    submitted, storeLog >>

\* reader.rewind()?
Rewind ==
    /\ pc = "rewind"
    /\ \/ /\ pc' = "pass2"
          /\ pos' = 1
          /\ rewinds' = rewinds + 1
          /\ UNCHANGED << err, tx, txRows, table, resVars, txIds, tableIds >>
       \/ /\ Fail("io")
          /\ UNCHANGED << pos, rewinds >>
    /\ UNCHANGED << runVars, autoInc, file, read1, read2, passVars, loopVars, tableExists,
                    submitted, storeLog >>

\* ----------------------------------------------------------- second pass
\* node.lon(), node.lat()
Lon(node) == node.coord[1]
Lat(node) == node.coord[2]

\* Treats every entry as usable, vacant ones included.
EntryAny(map, id) == TRUE

\* matches!(cwall_nodes.entry(id), Entry::Occupied(_))
EntryOccupied(map, id) == id \in DOMAIN map

\* entry.insert(value): the map afterwards
EntryInsert(map, id, v) ==
    [ k \in DOMAIN map \cup {id} |-> IF k = id THEN v ELSE map[k] ]

\* Takes the previous value for unset whatever the slot held.
EntryOldNone(map, id) == None

\* entry.insert(value): the returned previous value
EntryOld(map, id) == IF id \in DOMAIN map THEN map[id] ELSE None

\* The assertion is compiled out.
AssertDisabled(old_id) == TRUE

\* The assertion tests the opposite condition.
AssertInverted(old_id) == IsSome(old_id)

\* assert!(old_id.is_none(), "Duplicate node ID") passes
AssertOldIsNone(old_id) == IsNone(old_id)

\* One iteration of the loop of the second pass, or the end of that loop.
Pass2Step ==
    /\ pc = "pass2"
    /\ \/ /\ ~EndOfStream(pos, file)
          /\ LET obj == file[pos] IN
             /\ pos' = pos + 1
             /\ read2' = read2 + 1
             /\ IF obj.kind = "Node" /\ EntryOccupied(cwall_nodes, obj.id)
                THEN LET old_id == EntryOld(cwall_nodes, obj.id) IN
                     /\ cwall_nodes' =
                            EntryInsert(cwall_nodes, obj.id, Some(<< Lon(obj), Lat(obj) >>))
                     /\ IF AssertOldIsNone(old_id)
                        THEN /\ node_count' = node_count + 1
                             /\ UNCHANGED << pc, err, tx, txRows, table, resVars, txIds, tableIds >>
                        ELSE /\ Fail("duplicate")
                             /\ UNCHANGED node_count
                ELSE UNCHANGED << cwall_nodes, node_count, pc, err, tx, txRows, table,
                                  resVars, txIds, tableIds >>
       \/ /\ ~EndOfStream(pos, file)
          /\ Fail("decode")
          /\ UNCHANGED << pos, read2, cwall_nodes, node_count >>
       \/ /\ EndOfStream(pos, file)
          /\ pc' = "begin"
          /\ UNCHANGED << err, tx, txRows, table, resVars, txIds, tableIds,
                          pos, read2, cwall_nodes, node_count >>
    /\ UNCHANGED << runVars, autoInc, file, rewinds, read1, cwalls, loopVars, tableExists,
                    submitted, storeLog >>

\* ------------------------------------------------ assembly and load stage
\* Leaves the loop one way early.
IterDoneEarly(i, ws) == i >= Len(ws)

\* `for cwall in cwalls` has no further element.
IterDone(i, ws) == i > Len(ws)

\* Goes on to the insert of the next way without assembling it.
LoopPcReusesGeometry(i, ws) == IF IterDone(i, ws) THEN "commit" ELSE "load"

\* Leaves the loop for the commit without looking at element i.
LoopPcBreaks(i, ws) == "commit"

\* Where main() continues when the loop is at element i.
LoopPc(i, ws) == IF IterDone(i, ws) THEN "commit" ELSE "assemble"

\* conn.start_transaction(TxOpts::default())?
StartTransaction ==
    /\ pc = "begin"
    /\ storeLog' = Append(storeLog, "begin")
    /\ \/ /\ pc' = LoopPc(wi, cwalls)
          /\ tx' = "open"
          /\ txRows' = << >>
          /\ txIds' = << >>
          /\ UNCHANGED << err, table, tableIds, resVars >>
       \/ Fail("store")
    /\ UNCHANGED << runVars, autoInc, file, readerVars, passVars, loopVars, tableExists, submitted >>

\* One decimal digit.
Digit(d) ==
    CASE d = 0 -> "0" [] d = 1 -> "1" [] d = 2 -> "2" [] d = 3 -> "3"
      [] d = 4 -> "4" [] d = 5 -> "5" [] d = 6 -> "6" [] d = 7 -> "7"
      [] d = 8 -> "8" [] d = 9 -> "9"

\* The decimal digits of a natural number, without leading zeros.
RECURSIVE NatStr(_)
NatStr(n) == IF n < 10 THEN Digit(n) ELSE NatStr(n \div 10) \o Digit(n % 10)

\* The last `digits` decimal digits of n, zero padded.
RECURSIVE FracStr(_, _)
FracStr(n, digits) ==
    IF digits = 0 THEN "" ELSE FracStr(n \div 10, digits - 1) \o Digit(n % 10)

Abs(k) == IF k < 0 THEN 0 - k ELSE k

\* format!("{x:.7}") of the f64 x = k * 1e-7
FormatFixed(k) ==
    (IF k < 0 THEN "-" ELSE "")
        \o NatStr(Abs(k) \div DecimicroPerDegree)
        \o "."
        \o FracStr(Abs(k) % DecimicroPerDegree, Precision)

\* format!("{lon:.7} {lat:.7}")
PairStr(c) == FormatFixed(c[1]) \o " " \o FormatFixed(c[2])

\* node_strs.join(sep)
RECURSIVE Join(_, _)
Join(strs, sep) ==
    IF Len(strs) = 0 THEN ""
    ELSE IF Len(strs) = 1 THEN strs[1]
    ELSE strs[1] \o sep \o Join(Tail(strs), sep)

\* format!("LineString({})", node_strs.join(","))
LineString(node_strs) == "LineString(" \o Join(node_strs, ",") \o ")"

\* Leaves unresolved nodes out instead of giving up the way.
RECURSIVE CollectSkippingUnresolved(_, _)
CollectSkippingUnresolved(nodes, map) ==
    IF Len(nodes) = 0 THEN [panic |-> FALSE, val |-> Some(<< >>)]
    ELSE LET node_id == Head(nodes)
             rest == CollectSkippingUnresolved(Tail(nodes), map)
         IN  IF node_id \notin DOMAIN map THEN [panic |-> TRUE, val |-> None]
             ELSE IF rest.panic THEN rest
             ELSE IF IsNone(map[node_id]) THEN rest
             ELSE [panic |-> FALSE,
                   val |-> Some(<< PairStr(Unwrap(map[node_id])) >> \o Unwrap(rest.val))]

\* Gives up ways of fewer than two nodes, which make no line.
RECURSIVE CollectLongWay(_, _)
CollectLongWay(nodes, map) ==
    IF Len(nodes) = 0 THEN [panic |-> FALSE, val |-> Some(<< >>)]
    ELSE LET node_id == Head(nodes) IN
         IF node_id \notin DOMAIN map THEN [panic |-> TRUE, val |-> None]
         ELSE IF IsNone(map[node_id]) THEN [panic |-> FALSE, val |-> None]
         ELSE LET rest == CollectLongWay(Tail(nodes), map) IN
              IF rest.panic \/ IsNone(rest.val) THEN rest
              ELSE [panic |-> FALSE,
                    val |-> Some(<< PairStr(Unwrap(map[node_id])) >> \o Unwrap(rest.val))]
CollectRejectingShort(nodes, map) ==
    IF Len(nodes) < 2 THEN [panic |-> FALSE, val |-> None] ELSE CollectLongWay(nodes, map)

\* .map(|node_id| cwall_nodes[node_id].map(fmt)).collect::<Option<Vec<_>>>()
\* The index panics on a missing key; collect stops at the first None.
RECURSIVE CollectNodeStrs(_, _)
CollectNodeStrs(nodes, map) ==
    IF Len(nodes) = 0 THEN [panic |-> FALSE, val |-> Some(<< >>)]
    ELSE LET node_id == Head(nodes) IN
         IF node_id \notin DOMAIN map THEN [panic |-> TRUE, val |-> None]
         ELSE IF IsNone(map[node_id]) THEN [panic |-> FALSE, val |-> None]
         ELSE LET rest == CollectNodeStrs(Tail(nodes), map) IN
              IF rest.panic \/ IsNone(rest.val) THEN rest
              ELSE [panic |-> FALSE,
                    val |-> Some(<< PairStr(Unwrap(map[node_id])) >> \o Unwrap(rest.val))]

\* Binds an empty name instead of NULL when the way has no name tag.
OptNameOrEmpty(cwall) == IF "name" \in DOMAIN cwall.tags THEN Some(cwall.tags["name"]) ELSE Some("")

\* cwall.tags.get("name").map(|s| s.as_str())
OptName(cwall) == TagsGet(cwall.tags, "name")

\* Lines 82-90 of one loop iteration: opt_name and opt_geometry.
Assemble ==
    /\ pc = "assemble"
    /\ LET cwall == cwalls[wi]
           collected == CollectNodeStrs(cwall.nodes, cwall_nodes)
       IN  IF collected.panic
           THEN /\ Fail("index")
                /\ UNCHANGED << opt_name, opt_geometry >>
           ELSE /\ opt_name' = OptName(cwall)
                /\ opt_geometry' =
                       IF IsSome(collected.val)
                       THEN Some(LineString(Unwrap(collected.val)))
                       ELSE None
                /\ pc' = "load"
                /\ UNCHANGED << err, tx, txRows, table, resVars, txIds, tableIds >>
    /\ UNCHANGED << runVars, autoInc, file, readerVars, passVars, wi, tableExists, submitted, storeLog >>

\* Lines 93-101 with Some(geometry): tx.exec_drop(&cwalls_stmt, params!{..})?
InsertRow ==
    /\ pc = "load"
    /\ IsSome(opt_geometry)
    /\ LET record == [name |-> opt_name, geo |-> Unwrap(opt_geometry)] IN
       /\ storeLog' = Append(storeLog, "insert")
       /\ submitted' = Append(submitted, record)
       /\ \/ /\ txRows' = Append(txRows, record)
             /\ txIds' = Append(txIds, autoInc)
             /\ autoInc' = autoInc + 1
             /\ wi' = wi + 1
             /\ pc' = LoopPc(wi + 1, cwalls)
             /\ UNCHANGED << err, tx, table, tableIds, resVars >>
          \/ /\ Fail("store")
             /\ UNCHANGED << wi, autoInc >>
    /\ UNCHANGED << runVars, file, readerVars, passVars, opt_name, opt_geometry, tableExists >>

\* Lines 93-101 with None: the way is skipped.
SkipWay ==
    /\ pc = "load"
    /\ IsNone(opt_geometry)
    /\ wi' = wi + 1
    /\ pc' = LoopPc(wi + 1, cwalls)
    /\ UNCHANGED << runVars, resVars, idVars, file, err, readerVars, passVars,
                    opt_name, opt_geometry, storeVars >>

\* tx.commit()?; Ok(())
Commit ==
    /\ pc = "commit"
    /\ storeLog' = Append(storeLog, "commit")
    /\ \/ /\ table' = table \o txRows
          /\ tableIds' = tableIds \o txIds
          /\ txRows' = << >>
          /\ txIds' = << >>
          /\ tx' = "committed"
          /\ pc' = "committed"
          /\ reader' = Released(reader)
          /\ conn' = Released(conn)
          /\ UNCHANGED err
       \/ Fail("store")
    /\ UNCHANGED << runVars, autoInc, file, readerVars, passVars, loopVars, tableExists, submitted >>

Next ==
    \/ Connect
    \/ DropTable
    \/ CreateTable
    \/ Prepare
    \/ OpenFile
    \/ Pass1Step
    \/ Rewind
    \/ Pass2Step
    \/ StartTransaction
    \/ Assemble
    \/ InsertRow
    \/ SkipWay
    \/ Commit

Spec == Init /\ [][Next]_vars

\* main() runs to its end when the process is scheduled: no step waits for
\* anything but a blocking read or store call that returns.
FairSpec == Spec /\ WF_vars(Next)

\* ------------------------------------------------- two runs in succession
\* The delivery orders of the objects of a dataset.
Orders(f) ==
    LET n == Len(f)
        perms == { p \in [1..n -> 1..n] : \A i, j \in 1..n : p[i] = p[j] => i = j }
    IN  { [ i \in 1..n |-> f[p[i]] ] : p \in perms }

\* The pipeline is started a second time on the same dataset, delivered in
\* any order, after a run whose outcome the dataset decided: it committed,
\* or it was aborted by a duplicate node.  The destination store is the one
\* the first run left.
Rerun ==
    /\ ~rerun
    /\ pc = "committed" \/ (pc = "failed" /\ err = "duplicate")
    /\ rerun' = TRUE
    /\ prev' = [outcome |-> pc, file |-> file, map |-> cwall_nodes,
                rows |-> table, ids |-> tableIds]
    /\ file' \in Orders(file)
    /\ pc' = "connect"
    /\ err' = "none"
    /\ pos' = 1
    /\ rewinds' = 0
    /\ read1' = 0
    /\ read2' = 0
    /\ cwalls' = << >>
    /\ cwall_nodes' = EmptyMap
    /\ node_count' = 0
    /\ wi' = 1
    /\ opt_name' = None
    /\ opt_geometry' = None
    /\ tx' = "none"
    /\ txRows' = << >>
    /\ txIds' = << >>
    /\ submitted' = << >>
    /\ storeLog' = << >>
    /\ reader' = "none"
    /\ conn' = "none"
    /\ UNCHANGED << tableExists, table, tableIds, autoInc >>

NextRerun ==
    \/ Next
    \/ Rerun

SpecRerun == Init /\ [][NextRerun]_vars

\* ===================================================================
\* Properties
\* ===================================================================
\* The way carries the target category marker barrier=city_wall.
HasMarker(obj) ==
    /\ obj.kind = "Way"
    /\ \E k \in DOMAIN obj.tags : k = "barrier" /\ obj.tags[k] = "city_wall"

\* The objects the first / second pass has consumed so far.
Consumed1 == SubSeq(file, 1, read1)
Consumed2 == SubSeq(file, 1, read2)

\* The pass consumes an object in this step.
Delivers1 == pc = "pass1" /\ read1' = read1 + 1
Delivers2 == pc = "pass2" /\ read2' = read2 + 1

\* Node identifiers referenced by a sequence of ways.
ReferencedIds(ws) == UNION { Range(ws[i].nodes) : i \in 1..Len(ws) }

Keys == DOMAIN cwall_nodes

\* C1: in pass 1 a way lacking barrier=city_wall is never appended to the
\* retained ways and never adds a key to the Reference Set, nodes and other
\* non-way objects change neither, and every way carrying the marker is
\* retained exactly once (the retained ways are exactly the marked ways
\* consumed so far, in order).
C1_WaySelection ==
    /\ [](/\ cwalls = SelectSeq(Consumed1, HasMarker)
          /\ Keys \subseteq ReferencedIds(SelectSeq(Consumed1, HasMarker)))
    /\ [][ (Delivers1 /\ ~HasMarker(file[pos]))
              => (cwalls' = cwalls /\ cwall_nodes' = cwall_nodes) ]_vars

\* Pass 1 is over, it consumed a marked way, an unmarked way that references
\* nodes, and a node.
C1_Witness ==
    /\ pc = "rewind"
    /\ Len(cwalls) = 1
    /\ \E i \in 1..read1 : file[i].kind = "Way" /\ ~HasMarker(file[i])
                           /\ Len(file[i].nodes) > 0
    /\ \E i \in 1..read1 : file[i].kind = "Node"

\* C2: the key set of the Reference Set is exactly the union of the node
\* lists of the retained ways, at the end of pass 1 and in every state after
\* it (it holds in every reachable state), and at the end of pass 1 every
\* key maps to None.
C2_KeySetIsUnion ==
    /\ Keys = ReferencedIds(cwalls)
    /\ pc = "rewind" => \A k \in Keys : cwall_nodes[k] = None

\* Pass 1 is over with two retained ways that reference two distinct nodes.
C2_Witness ==
    /\ pc = "rewind"
    /\ Len(cwalls) = 2
    /\ cwalls[1].nodes # cwalls[2].nodes
    /\ Cardinality(Keys) = 2

\* C3: during pass 2 no key is added or removed and the retained ways do not
\* change; a delivered point whose identifier is not a key changes neither
\* the Reference Set, the retained ways nor the resolved counter; a slot that
\* is filled belongs to an identifier referenced by a retained way, and no
\* slot is filled before pass 2.
C3_KeySetFrozen ==
    /\ [][ pc = "pass2" =>
             /\ DOMAIN cwall_nodes' = DOMAIN cwall_nodes
             /\ cwalls' = cwalls
             /\ (Delivers2 /\ file[pos].kind = "Node" /\ file[pos].id \notin Keys)
                   => /\ cwall_nodes' = cwall_nodes
                      /\ node_count' = node_count
                      /\ pc' = "pass2" ]_vars
    /\ [](\A k \in Keys : IsSome(cwall_nodes[k]) =>
             /\ k \in ReferencedIds(cwalls)
             /\ rewinds = 1)

\* Pass 2 has consumed a point that is not a key and has resolved a key.
C3_Witness ==
    /\ pc = "pass2"
    /\ node_count = 1
    /\ \E i \in 1..read2 : file[i].kind = "Node" /\ file[i].id \notin Keys

\* C4 as stated: a slot that holds a coordinate is never changed, in
\* particular not by the point whose arrival aborts the run.
C4_SlotNeverReplaced ==
    [][ \A k \in Keys : IsSome(cwall_nodes[k]) =>
            (k \in DOMAIN cwall_nodes' /\ cwall_nodes'[k] = cwall_nodes[k]) ]_vars

\* C4 amended: a point of pass 2 whose identifier is a key is always stored
\* into its slot.  If the slot was unset the counter is incremented by one
\* and the run goes on; if it was set the run aborts with the duplicate
\* violation, the counter is not incremented, and the slot then holds the
\* coordinate of the second point.  No other slot changes, and in every step
\* that does not abort the run a set slot keeps its coordinate.
C4_ResolveAtMostOnce ==
    /\ [][ (Delivers2 /\ file[pos].kind = "Node" /\ file[pos].id \in Keys) =>
             LET k == file[pos].id IN
             /\ cwall_nodes'[k] = Some(file[pos].coord)
             /\ \A j \in Keys \ {k} : cwall_nodes'[j] = cwall_nodes[j]
             /\ IsNone(cwall_nodes[k]) =>
                   (node_count' = node_count + 1 /\ pc' = "pass2")
             /\ IsSome(cwall_nodes[k]) =>
                   (node_count' = node_count /\ pc' = "failed" /\ err' = "duplicate") ]_vars
    /\ [][ pc' # "failed" =>
             \A k \in Keys : IsSome(cwall_nodes[k]) =>
                 (k \in DOMAIN cwall_nodes' /\ cwall_nodes'[k] = cwall_nodes[k]) ]_vars

\* The run was aborted by a second point for a resolved key, and the slot
\* holds the coordinate of that second point, not of the first.
C4_Witness ==
    /\ pc = "failed"
    /\ err = "duplicate"
    /\ node_count = 1
    /\ \E i \in 1..read2 : \E j \in (i+1)..(read2+1) :
          /\ j <= Len(file)
          /\ file[i].kind = "Node" /\ file[j].kind = "Node"
          /\ file[i].id = file[j].id
          /\ file[i].coord # file[j].coord
          /\ cwall_nodes[file[j].id] = Some(file[j].coord)

\* Every node reference of the way has a coordinate in the Reference Set.
FullyResolved(w) ==
    \A i \in 1..Len(w.nodes) :
        w.nodes[i] \in Keys /\ IsSome(cwall_nodes[w.nodes[i]])

\* The geometry text of a fully resolved way: one pair per node reference.
GeometryOf(w) ==
    LineString([ i \in 1..Len(w.nodes) |-> PairStr(Unwrap(cwall_nodes[w.nodes[i]])) ])

\* C5: after the assembly of a retained way with N node references, the
\* geometry is the LineString of exactly N pairs, the i-th being the
\* coordinate of the Reference Set for the i-th reference, when every
\* reference is resolved, and there is no geometry otherwise; a way without
\* geometry causes no insert and the loop goes on to the next way without
\* failing; assembly itself never fails.
C5_GeometryAssembly ==
    /\ [](pc = "load" =>
            IF FullyResolved(cwalls[wi])
            THEN opt_geometry = Some(GeometryOf(cwalls[wi]))
            ELSE opt_geometry = None)
    /\ [][ pc = "assemble" => pc' = "load" ]_vars
    /\ [][ (pc = "load" /\ IsNone(opt_geometry)) =>
             /\ submitted' = submitted
             /\ storeLog' = storeLog
             /\ txRows' = txRows
             /\ wi' = wi + 1
             /\ pc' = IF wi' > Len(cwalls) THEN "commit" ELSE "assemble" ]_vars

\* The first retained way was skipped for an unresolved node, the loop went
\* on, and the second way has been assembled.
C5_Witness ==
    /\ pc = "load"
    /\ wi = 2
    /\ submitted = << >>
    /\ ~FullyResolved(cwalls[1])
    /\ IsSome(opt_geometry)

\* The record the load stage submits for a way.
RECURSIVE ExpectedRecords(_)
ExpectedRecords(ws) ==
    IF Len(ws) = 0 THEN << >>
    ELSE LET w == Head(ws) IN
         (IF FullyResolved(w)
          THEN << [name |-> IF \E k \in DOMAIN w.tags : k = "name"
                            THEN << w.tags["name"] >> ELSE << >>,
                   geo |-> GeometryOf(w)] >>
          ELSE << >>) \o ExpectedRecords(Tail(ws))

\* C6: the inserts of a run are, in the order of the retained ways, the
\* records of the fully resolved ways processed so far, each with its own
\* name tag (NULL when the way has none); a committed run has submitted the
\* records of all fully resolved retained ways.
C6_InsertOrder ==
    /\ pc \in {"assemble", "load", "commit", "committed"}
          => submitted = ExpectedRecords(SubSeq(cwalls, 1, wi - 1))
    /\ pc = "committed" => submitted = ExpectedRecords(cwalls)
    /\ \E n \in {wi - 1, wi} :
          /\ n <= Len(cwalls)
          /\ submitted = ExpectedRecords(SubSeq(cwalls, 1, n))

\* A committed run that submitted two records, one with a name and one
\* without.
C6_Witness ==
    /\ pc = "committed"
    /\ Len(submitted) = 2
    /\ IsSome(submitted[1].name) # IsSome(submitted[2].name)

\* C7 as stated: in a terminal state the table holds every submitted
\* geometry (Committed) or no row at all (Failed).
C7_AllOrNothing ==
    /\ pc = "committed" => table = submitted
    /\ pc = "failed" => table = << >>

\* C7 amended: a committed run leaves exactly its submitted records in the
\* table; a failed run leaves none of them: the failing step never changes
\* the durable rows, and once DROP TABLE has succeeded the table is empty
\* until the commit, so a failure of an insert or of the commit leaves zero
\* rows.  (A run that fails before DROP TABLE succeeded leaves the rows the
\* table had before the run.)
C7_AllOrNothingAfterDrop ==
    /\ [](pc = "committed" => table = submitted)
    /\ []((pc # "committed" /\ Len(storeLog) >= 2) => table = << >>)
    /\ [][ pc' = "failed" => table' = table ]_vars

\* An insert succeeded, then a later insert or the commit failed.
C7_Witness ==
    /\ pc = "failed"
    /\ err = "store"
    /\ tx = "rolledback"
    /\ \E i \in 1..(Len(storeLog) - 1) : storeLog[i] = "insert"
    /\ table = << >>

\* Number of occurrences of op in the store log.
Count(op) == Cardinality({ i \in 1..Len(storeLog) : storeLog[i] = op })

\* The step issues the store operation op.
Issues(op) == storeLog' = Append(storeLog, op)

\* C8: a run opens at most one transaction and commits at most once (exactly
\* one of each when it ends Committed); every insert is issued while the
\* transaction is open; the commit is issued in the open transaction only
\* after the loop over the retained ways is finished; no store operation
\* follows the commit.
C8_TransactionShape ==
    /\ [](/\ Count("begin") <= 1
          /\ Count("commit") <= 1
          /\ \A i \in 1..Len(storeLog) : storeLog[i] = "commit" => i = Len(storeLog)
          /\ \A i \in 1..Len(storeLog) : storeLog[i] = "insert" =>
                \E j \in 1..(i - 1) : storeLog[j] = "begin"
          /\ pc = "committed" => (Count("begin") = 1 /\ Count("commit") = 1)
          /\ Count("insert") = Len(submitted))
    /\ [][ Issues("insert") => tx = "open" ]_vars
    /\ [][ Issues("commit") => (tx = "open" /\ wi = Len(cwalls) + 1) ]_vars

\* A committed run with two inserts between begin and commit.
C8_Witness ==
    /\ pc = "committed"
    /\ Count("insert") = 2
    /\ storeLog[Len(storeLog)] = "commit"

\* C9: pass 2 processes an object only after pass 1 has consumed the whole
\* stream; the reader is rewound at most once, only at the end of pass 1 and
\* before pass 2, and exactly once in every run that gets past the rewind;
\* after the rewind no way is retained and no key is added.
C9_PassSequencing ==
    /\ [](/\ rewinds <= 1
          /\ read2 > 0 => (read1 = Len(file) /\ rewinds = 1)
          /\ pc \in {"pass2", "begin", "assemble", "load", "commit", "committed"}
                => (rewinds = 1 /\ read1 = Len(file))
          /\ pc \in {"begin", "assemble", "load", "commit", "committed"}
                => read2 = Len(file))
    /\ [][ rewinds' # rewinds =>
             (pc = "rewind" /\ read1 = Len(file) /\ read2 = 0 /\ pc' = "pass2") ]_vars
    /\ [][ rewinds >= 1 =>
             (cwalls' = cwalls /\ DOMAIN cwall_nodes' = DOMAIN cwall_nodes) ]_vars

\* Pass 2 is consuming objects after a pass 1 that retained a way.
C9_Witness ==
    /\ pc = "pass2"
    /\ read2 = 2
    /\ read1 = Len(file)
    /\ rewinds = 1
    /\ Len(cwalls) >= 1

\* The stages of the pipeline as the state machine of the specification
\* numbers them (the failure state is terminal).
StageNo(p) ==
    CASE p \in {"connect", "drop", "create", "prep", "open"} -> 0
      [] p = "pass1" -> 1
      [] p = "rewind" -> 2
      [] p = "pass2" -> 3
      [] p \in {"begin", "assemble"} -> 4
      [] p \in {"load", "commit"} -> 5
      [] p = "committed" -> 6
      [] p = "failed" -> 7

\* The same with Assembling and Loading taken as one stage.
PhaseNo(p) == IF StageNo(p) = 5 THEN 4 ELSE StageNo(p)

\* C10 as stated: the stages follow one another without re-entry, and once
\* the first insert has been issued no geometry is assembled any more.
C10_NoStageReentry ==
    /\ [][ StageNo(pc') >= StageNo(pc) ]_vars
    /\ [][ Len(submitted) > 0 => ~(pc = "assemble" /\ pc' = "load") ]_vars

\* C10 amended: the run goes through Scanning-Pass-1, Rewound,
\* Scanning-Pass-2, the opening of the transaction, the assembly-and-load
\* loop and Committed in this order without re-entering an earlier one, but
\* Assembling and Loading are interleaved way by way inside one loop: every
\* insert or skip is directly preceded by the assembly of that same way, and
\* after it the loop assembles the next retained way.
C10_StagesInterleaved ==
    /\ [][ PhaseNo(pc') >= PhaseNo(pc) ]_vars
    /\ [][ pc' = "load" => (pc = "assemble" /\ wi' = wi) ]_vars
    /\ [][ pc' = "assemble" =>
             (pc \in {"begin", "load"} /\ wi' <= Len(cwalls)
              /\ (pc = "load" => wi' = wi + 1)) ]_vars
    /\ [][ submitted' # submitted => pc = "load" ]_vars

\* A geometry has been assembled after the first insert was issued.
C10_Witness ==
    /\ pc = "load"
    /\ wi = 2
    /\ Len(submitted) = 1
    /\ IsSome(opt_geometry)

\* C11: a run aborted by a duplicate-resolution violation or by a decode
\* error has issued no insert and has not opened the transaction, and the
\* table is then the freshly created, empty one; the duplicate violation is
\* raised only by a second point for an identifier that a retained way
\* references; a delivered point whose identifier no retained way references
\* never aborts the run, however often it occurs.
C11_AbortBeforeLoad ==
    /\ []((pc = "failed" /\ err \in {"duplicate", "decode"}) =>
            /\ submitted = << >>
            /\ tx = "none"
            /\ \A i \in 1..Len(storeLog) : storeLog[i] \notin {"begin", "insert", "commit"}
            /\ tableExists
            /\ table = << >>)
    /\ []((pc = "failed" /\ err = "duplicate") =>
            \E i, j \in 1..Len(file) :
                /\ i < j
                /\ file[i].kind = "Node" /\ file[j].kind = "Node"
                /\ file[i].id = file[j].id
                /\ file[i].id \in ReferencedIds(cwalls))
    /\ [][ (Delivers2 /\ file[pos].kind = "Node"
               /\ file[pos].id \notin ReferencedIds(cwalls)) => pc' = "pass2" ]_vars

\* The run was aborted by the second of two points for a referenced node,
\* after the table was recreated and before the transaction was opened.
C11_Witness ==
    /\ pc = "failed"
    /\ err = "duplicate"
    /\ storeLog = << "drop", "create", "prep" >>
    /\ tableExists
    /\ table = << >>

\* C12 as stated: a run that fails leaves the content of the destination as
\* it was before the run, rows of an earlier run included: no step but the
\* final commit changes what the table durably holds.
C12_FailedRunKeepsContent ==
    [][ pc' # "committed" => table' = table ]_vars

\* C12 amended: a failed run persists no row of its own, but it is not
\* without side effect on the destination: the durable content changes at
\* DROP TABLE (the rows of an earlier run are deleted), at CREATE TABLE (the
\* empty table exists again) and at the commit, and at no other step, so a
\* run that fails after DROP TABLE succeeded leaves an empty table (or none)
\* whatever it held before; only a run that fails before that leaves the
\* content as it was.
C12_FailedRunDropsOldRows ==
    /\ [][ (table' # table \/ tableExists' # tableExists) =>
             \/ pc = "drop" /\ pc' = "create" /\ table' = << >> /\ ~tableExists'
             \/ pc = "create" /\ pc' = "prep" /\ table' = << >> /\ tableExists'
             \/ pc = "commit" /\ pc' = "committed" ]_vars
    /\ []((pc = "failed" /\ Len(storeLog) >= 2) => (table = << >> /\ tableIds = << >>))
    /\ []((pc = "failed" /\ storeLog = << "drop", "create" >>) => ~tableExists)

\* The run failed in the second pass, after the table was dropped and
\* recreated: the table is empty.
C12_Witness ==
    /\ pc = "failed"
    /\ err = "decode"
    /\ rewinds = 1
    /\ tableExists
    /\ table = << >>

\* C13: a run that commits leaves in the table exactly its own records,
\* with the generated ids 1, 2, ... in insert order, whatever the table held
\* before; so a second run on the same dataset after a first one ends with
\* the same rows, in the same order and with the same ids, as the first: no
\* row of the earlier run is kept or duplicated.  (Two runs that are both
\* aborted by a duplicate node both leave the empty table.)
C13_RerunIdempotent ==
    /\ pc = "committed" =>
          /\ table = submitted
          /\ tableIds = [ i \in 1..Len(table) |-> i ]
    /\ (rerun /\ pc = "committed" /\ prev.outcome = "committed" /\ file = prev.file)
          => (table = prev.rows /\ tableIds = prev.ids)
    /\ (rerun /\ pc = "failed" /\ err = "duplicate" /\ prev.outcome = "failed")
          => (table = prev.rows /\ tableIds = prev.ids)

\* The second run on the same dataset has committed two rows over the two
\* rows the first run had committed.
C13_Witness ==
    /\ rerun
    /\ pc = "committed"
    /\ prev.outcome = "committed"
    /\ file = prev.file
    /\ Len(prev.rows) = 2
    /\ Len(table) = 2

\* C14: in every terminal state, Committed or Failed at whatever stage, the
\* reader (and its file) and the store connection are released and no
\* transaction is open: it is committed in Committed, and rolled back in a
\* failure that comes after it was opened.
C14_ResourcesReleased ==
    pc \in {"committed", "failed"} =>
        /\ reader # "open"
        /\ conn # "open"
        /\ tx # "open"
        /\ txRows = << >>
        /\ pc = "committed" => (tx = "committed" /\ reader = "closed" /\ conn = "closed")
        /\ (pc = "failed" /\ \E i \in 1..Len(storeLog) : storeLog[i] = "insert")
              => (tx = "rolledback" /\ reader = "closed" /\ conn = "closed")

\* The run failed at an insert or at the commit, with the reader, the
\* connection and the transaction open until then.
C14_Witness ==
    /\ pc = "failed"
    /\ err = "store"
    /\ Len(submitted) >= 1
    /\ reader = "closed"
    /\ conn = "closed"
    /\ tx = "rolledback"

\* The node objects of the file that carry the identifier id.
NodeIndexes(id) == { i \in 1..Len(file) : file[i].kind = "Node" /\ file[i].id = id }

\* The coordinate of the node object of the file with the identifier id.
FileCoord(id) == file[CHOOSE i \in NodeIndexes(id) : TRUE].coord

\* C15: the Reference Set holds one entry per identifier however many
\* retained ways reference it: folding in a way whose references are all
\* keys already changes nothing and is no error; the resolved counter is
\* always the number of keys with a set value and never exceeds the number
\* of keys; once pass 2 is over a set key was resolved by the single node
\* object of the file that carries it; and every assembled geometry uses
\* that node's coordinate for each reference to it.
C15_SharedPoints ==
    /\ [](/\ node_count = Cardinality({ k \in Keys : IsSome(cwall_nodes[k]) })
          /\ node_count <= Cardinality(Keys))
    /\ [][ (Delivers1 /\ HasMarker(file[pos]) /\ Range(file[pos].nodes) \subseteq Keys)
              => (cwall_nodes' = cwall_nodes /\ pc' = "pass1"
                  /\ cwalls' = Append(cwalls, file[pos])) ]_vars
    /\ [](pc \in {"begin", "assemble", "load", "commit", "committed"} =>
             \A k \in Keys :
                 IF IsSome(cwall_nodes[k])
                 THEN Cardinality(NodeIndexes(k)) = 1 /\ cwall_nodes[k] = Some(FileCoord(k))
                 ELSE NodeIndexes(k) = {})
    /\ []((pc = "load" /\ IsSome(opt_geometry)) =>
             LET w == cwalls[wi] IN
             opt_geometry =
                 Some(LineString([ i \in 1..Len(w.nodes) |-> PairStr(FileCoord(w.nodes[i])) ])))

\* Two retained ways share one node, which one node object resolved, and
\* both geometries have been submitted.
C15_Witness ==
    /\ pc = "committed"
    /\ Len(cwalls) = 2
    /\ Len(submitted) = 2
    /\ Keys = {10}
    /\ node_count = 1

Terminal == {"committed", "failed"}

\* Position of main() as a number that every step increases.
Progress ==
    LET rank == CASE pc = "connect" -> 0 [] pc = "drop" -> 1 [] pc = "create" -> 2
                  [] pc = "prep" -> 3 [] pc = "open" -> 4 [] pc = "pass1" -> 5
                  [] pc = "rewind" -> 6 [] pc = "pass2" -> 7 [] pc = "begin" -> 8
                  [] pc \in {"assemble", "load"} -> 9 [] pc = "commit" -> 10
                  [] pc \in Terminal -> 11
    IN  rank * 4 * (MaxObjs + 2) + 2 * (read1 + read2 + wi) + (IF pc = "load" THEN 1 ELSE 0)

\* C16: every run terminates, in Committed or in Failed; both are final (no
\* step leaves them, so nothing is retried) and every step moves the run
\* forward, so it cannot loop or stay in an intermediate stage; Committed
\* means all stages are complete and the transaction is committed; and no
\* failure is caused by entries left unresolved: a run fails only on a
\* store, file or decode error or on a duplicate node.
C16_Terminates ==
    /\ <>(pc \in Terminal)
    /\ [][ pc \notin Terminal ]_vars
    /\ [][ Progress' > Progress ]_vars
    /\ [](pc = "committed" =>
            /\ read1 = Len(file) /\ read2 = Len(file)
            /\ wi = Len(cwalls) + 1
            /\ tx = "committed"
            /\ err = "none")
    /\ [](pc = "failed" => err \in {"store", "io", "decode", "duplicate"})

\* A committed run that left a referenced node unresolved.
C16_Witness ==
    /\ pc = "committed"
    /\ \E k \in Keys : IsNone(cwall_nodes[k])

\* C17: every node reference of every retained way is a key of the
\* Reference Set in every reachable state, so the index cwall_nodes[node_id]
\* never fails: the assembly never aborts the run, and a way that gets no
\* geometry has a reference whose key is there with an unset value.
C17_LookupsAreKeys ==
    /\ [](/\ ReferencedIds(cwalls) \subseteq Keys
          /\ err # "index")
    /\ [][ pc = "assemble" => (pc' = "load" /\ err' = "none") ]_vars
    /\ []((pc = "load" /\ IsNone(opt_geometry)) =>
             \E i \in 1..Len(cwalls[wi].nodes) :
                 /\ cwalls[wi].nodes[i] \in Keys
                 /\ IsNone(cwall_nodes[cwalls[wi].nodes[i]]))

\* The assembly of a way with an unresolved reference ended without
\* geometry and without abort.
C17_Witness ==
    /\ pc = "load"
    /\ IsNone(opt_geometry)
    /\ Len(cwalls[wi].nodes) = 3
    /\ node_count = 1

SameRecords(a, b) ==
    \A x \in Range(a) \cup Range(b) :
        Cardinality({ i \in 1..Len(a) : a[i] = x }) = Cardinality({ i \in 1..Len(b) : b[i] = x })

\* The run ended the way the dataset decides: it committed, or it was
\* aborted by the data (not by a store, file or decode error).
DatasetDecided == pc = "committed" \/ (pc = "failed" /\ err \in {"duplicate", "index"})

====
